---- MODULE Spec2Model ----
(***************************************************************************)
(* StellarStream: a token-streaming contract (contracts/src/lib.rs).       *)
(*                                                                         *)
(* State: the contract's instance storage (scalar keys), the per-version   *)
(* MigrationExecuted flags, the persistent storage of stream records, the  *)
(* value the token contract holds for this contract (custody), the ledger  *)
(* timestamp, and the outcome of the last contract call.                   *)
(*                                                                         *)
(* Every public function is one action.  A call that panics is rolled back *)
(* by the host with no effect on storage or balances, so it is no step at  *)
(* all: the ...Status operators give, for the current state and a call's   *)
(* arguments, how that call ends ("ok" or the panic it hits first, in the  *)
(* order the code tests them), and each action is enabled when its status  *)
(* is "ok".  `last` records the transfers and the return value of the last *)
(* completed call, if it was one that moves tokens.                        *)
(*                                                                         *)
(* Spec is the whole contract.  SpecUnlock studies the unlock schedule on  *)
(* its own: one stored stream, for every amount and every valid schedule   *)
(* within its bounds, with withdraw and cancel_stream applied to it as the *)
(* ledger time advances.                                                   *)
(*                                                                         *)
(* X.require_auth() passes when the call carries X's authorization.  Where *)
(* X is a parameter (admin, sender, receiver) the parameter is the         *)
(* authorizing principal; where X is read from the stored record           *)
(* (cancel_stream, transfer_receiver) the action takes the authorizing     *)
(* principal as the input `auth`.                                          *)
(***************************************************************************)
EXTENDS Integers, Sequences, FiniteSets, TLC

\* ---------------------------------------------------------------- bounds
MaxTime == 2          \* ledger timestamps range over 0..MaxTime
MaxStreams == 2       \* the StreamId counter is capped here
MaxBatch == 2         \* longest request vector given to create_batch_streams
MaxVersion == 3       \* migrate is called with target_version in 0..MaxVersion

\* ------------------------------------------------------------- constants
MaxFeeBps == 1000     \* lib.rs: `if fee_bps > 1000`
BpsDenominator == 10000

\* ---------------------------------------------------------------- inputs
Addr == {"alice", "bob"}
Contract == "contract"            \* env.current_contract_address()
TreasuryAddrs == {"treasury"}
Tokens == {"tok"}
Senders == {"alice"}
Receivers == {"bob"}
FeeInputs == {0, MaxFeeBps, MaxFeeBps + 1}
AmountInputs == {0, 10}
\* <<start_time, cliff_time, end_time>>
TimeInputs == { <<0, 1, 2>>,      \* start < cliff < end
                <<1, 0, 2>>,      \* cliff before start
                <<1, 1, 1>> }     \* end not after start

VARIABLES instance, migration_executed, persistent, custody, now, last
vars == <<instance, migration_executed, persistent, custody, now, last>>

\* ------------------------------------------------------- storage helpers
\* env.storage().instance().get(key).unwrap_or(default)
GetOr(key, default) == IF key \in DOMAIN instance THEN instance[key] ELSE default

\* env.storage().instance().set(key, value)
SetKey(inst, key, value) ==
    [k \in DOMAIN inst \cup {key} |-> IF k = key THEN value ELSE inst[k]]

\* env.storage().persistent().set(DataKey::Stream(id), record)
PutStream(store, id, rec) ==
    [k \in DOMAIN store \cup {id} |-> IF k = id THEN rec ELSE store[k]]

\* env.storage().persistent().remove(DataKey::Stream(id))
RemoveStream(store, id) == [k \in DOMAIN store \ {id} |-> store[k]]

\* A stored record decodes as `Stream` only if it has the eight fields of the
\* current schema, and as `LegacyStream` only if it has the seven legacy ones.
IsCurrent(rec) == rec.schema = "current"
IsLegacy(rec) == rec.schema = "legacy"

Stream(sender, receiver, token, amount, start_time, cliff_time, end_time, withdrawn) ==
    [schema |-> "current", sender |-> sender, receiver |-> receiver, token |-> token,
     amount |-> amount, start_time |-> start_time, cliff_time |-> cliff_time,
     end_time |-> end_time, withdrawn_amount |-> withdrawn]

LegacyStream(sender, receiver, token, amount, start_time, end_time, withdrawn) ==
    [schema |-> "legacy", sender |-> sender, receiver |-> receiver, token |-> token,
     amount |-> amount, start_time |-> start_time,
     end_time |-> end_time, withdrawn_amount |-> withdrawn]

StreamRequest(receiver, amount, start_time, cliff_time, end_time) ==
    [receiver |-> receiver, amount |-> amount, start_time |-> start_time,
     cliff_time |-> cliff_time, end_time |-> end_time]

Transfer(from, to, amt) == [from |-> from, to |-> to, amt |-> amt]

\* A completed call that moved tokens: the function, the stream requests it
\* was given (create_stream's arguments as one request), the stream id it
\* named (0 if none), the token transfers it made in order, and its return
\* value (as a sequence).
Outcome(op, args, id, xfers, ret) ==
    [op |-> op, args |-> args, id |-> id, xfers |-> xfers, ret |-> ret]

\* A call that moves no tokens and returns nothing (and the passing of time)
\* leaves nothing to observe but the storage itself.
NoOutcome == Outcome("none", <<>>, 0, <<>>, <<>>)

\* ------------------------------------------------------------ versioning
get_version == GetOr("ContractVersion", 1)

is_migration_executed(v) == v \in migration_executed

\* migrate_v1_to_v2 walks ids 1..=StreamId and reads every stored record as a
\* `Stream`; a record that does not decode as `Stream` makes the typed read
\* trap.  Nothing is written.
migrate_v1_to_v2 ==
    IF \E id \in 1..GetOr("StreamId", 0) :
            id \in DOMAIN persistent /\ ~IsCurrent(persistent[id])
    THEN "DecodeError"
    ELSE "ok"

\* A migration loop whose `match` lets versions without a step pass.
RECURSIVE RunMigrations_SkipUndefined(_, _)
RunMigrations_SkipUndefined(version, target) ==
    IF version > target THEN "ok"
    ELSE IF version = 2 /\ migrate_v1_to_v2 # "ok" THEN migrate_v1_to_v2
    ELSE RunMigrations_SkipUndefined(version + 1, target)

\* The loop `for version in (current+1)..=target { match version {...} }`:
\* the first step that fails decides how the call ends.
RECURSIVE RunMigrations(_, _)
RunMigrations(version, target) ==
    IF version > target THEN "ok"
    ELSE IF version = 2
         THEN IF migrate_v1_to_v2 = "ok"
              THEN RunMigrations(version + 1, target)
              ELSE migrate_v1_to_v2
         ELSE "UndefinedMigrationStep"

\* A migrate that forgets to test the MigrationExecuted flag.
migrateStatus_NoExecutedCheck(admin, target_version) ==
    IF "Admin" \notin DOMAIN instance THEN "AdminNotSet"
    ELSE IF admin # instance["Admin"] THEN "Unauthorized"
    ELSE IF target_version <= get_version THEN "NonMonotonicMigration"
    ELSE RunMigrations(get_version + 1, target_version)

migrateStatus(admin, target_version) ==
    IF "Admin" \notin DOMAIN instance THEN "AdminNotSet"
    ELSE IF admin # instance["Admin"] THEN "Unauthorized"
    ELSE IF is_migration_executed(target_version) THEN "AlreadyMigrated"
    ELSE IF target_version <= get_version THEN "NonMonotonicMigration"
    ELSE RunMigrations(get_version + 1, target_version)

\* A bulk migration that rewrites every record it visits, resetting the cliff
\* to the start.
migrate_Converting(admin, target_version) ==
    /\ migrateStatus(admin, target_version) = "ok"
    /\ migration_executed' = migration_executed \cup {target_version}
    /\ instance' = SetKey(instance, "ContractVersion", target_version)
    /\ persistent' = [id \in DOMAIN persistent |->
            [persistent[id] EXCEPT !.cliff_time = persistent[id].start_time]]
    /\ last' = NoOutcome
    /\ UNCHANGED <<custody, now>>

migrate(admin, target_version) ==
    /\ migrateStatus(admin, target_version) = "ok"
    /\ migration_executed' = migration_executed \cup {target_version}
    /\ instance' = SetKey(instance, "ContractVersion", target_version)
    /\ last' = NoOutcome
    /\ UNCHANGED <<persistent, custody, now>>

\* A migrate_single_stream that takes whatever record is stored for a legacy one.
migrateSingleStatus_AnyRecord(admin, stream_id) ==
    IF "Admin" \notin DOMAIN instance THEN "AdminNotSet"
    ELSE IF admin # instance["Admin"] THEN "Unauthorized"
    ELSE IF stream_id \notin DOMAIN persistent THEN "NotFound"
    ELSE "ok"

migrateSingleStatus(admin, stream_id) ==
    IF "Admin" \notin DOMAIN instance THEN "AdminNotSet"
    ELSE IF admin # instance["Admin"] THEN "Unauthorized"
    ELSE IF stream_id \notin DOMAIN persistent THEN "NotFound"
    ELSE IF ~IsLegacy(persistent[stream_id]) THEN "DecodeError"
    ELSE "ok"

migrate_single_stream(admin, stream_id) ==
    /\ migrateSingleStatus(admin, stream_id) = "ok"
    /\ LET legacy_stream == persistent[stream_id] IN
         /\ persistent' = PutStream(persistent, stream_id,
                Stream(legacy_stream.sender, legacy_stream.receiver,
                       legacy_stream.token, legacy_stream.amount,
                       legacy_stream.start_time, legacy_stream.start_time,
                       legacy_stream.end_time, legacy_stream.withdrawn_amount))
         /\ last' = NoOutcome
         /\ UNCHANGED <<instance, migration_executed, custody, now>>

\* ------------------------------------------------------- admin and fees
initializeFeeStatus(fee_bps) ==
    IF fee_bps > MaxFeeBps THEN "FeeOutOfBounds" ELSE "ok"

initialize_fee(admin, fee_bps, treasury) ==
    /\ initializeFeeStatus(fee_bps) = "ok"
    /\ instance' = SetKey(SetKey(SetKey(instance, "Admin", admin),
                                 "FeeBps", fee_bps), "Treasury", treasury)
    /\ last' = NoOutcome
    /\ UNCHANGED <<migration_executed, persistent, custody, now>>

\* An update_fee without the 10% ceiling.
updateFeeStatus_NoBound(admin, fee_bps) ==
    IF "Admin" \notin DOMAIN instance THEN "AdminNotSet"
    ELSE IF admin # instance["Admin"] THEN "Unauthorized"
    ELSE "ok"

updateFeeStatus(admin, fee_bps) ==
    IF "Admin" \notin DOMAIN instance THEN "AdminNotSet"
    ELSE IF admin # instance["Admin"] THEN "Unauthorized"
    ELSE IF fee_bps > MaxFeeBps THEN "FeeOutOfBounds"
    ELSE "ok"

update_fee(admin, fee_bps) ==
    /\ updateFeeStatus(admin, fee_bps) = "ok"
    /\ instance' = SetKey(instance, "FeeBps", fee_bps)
    /\ last' = NoOutcome
    /\ UNCHANGED <<migration_executed, persistent, custody, now>>

initialize(admin) ==
    /\ instance' = SetKey(SetKey(instance, "Admin", admin), "IsPaused", FALSE)
    /\ last' = NoOutcome
    /\ UNCHANGED <<migration_executed, persistent, custody, now>>

setPauseStatus(admin) ==
    IF "Admin" \notin DOMAIN instance THEN "AdminNotSet"
    ELSE IF admin # instance["Admin"] THEN "Unauthorized"
    ELSE "ok"

set_pause(admin, paused) ==
    /\ setPauseStatus(admin) = "ok"
    /\ instance' = SetKey(instance, "IsPaused", paused)
    /\ last' = NoOutcome
    /\ UNCHANGED <<migration_executed, persistent, custody, now>>

\* check_not_paused panics exactly when this is TRUE
is_paused == GetOr("IsPaused", FALSE)

\* ------------------------------------------------------------ arithmetic
\* Rust's integer `/` truncates toward zero.
TruncDiv(a, b) ==
    IF (a >= 0) = (b > 0) THEN (IF a >= 0 THEN a ELSE -a) \div (IF b > 0 THEN b ELSE -b)
    ELSE -((IF a >= 0 THEN a ELSE -a) \div (IF b > 0 THEN b ELSE -b))

\* math::calculate_unlocked(amount, start, cliff, end, now).  The timestamps
\* are u64: `now - start` below zero is an arithmetic overflow, which is
\* signalled (ok = FALSE) and aborts the caller.
calculate_unlocked(amount, start, cliff, end, t) ==
    IF t < cliff THEN [ok |-> TRUE, val |-> 0]
    ELSE IF t >= end THEN [ok |-> TRUE, val |-> amount]
    ELSE IF t < start \/ end <= start THEN [ok |-> FALSE, val |-> 0]
    ELSE [ok |-> TRUE, val |-> TruncDiv(amount * (t - start), end - start)]

\* A call that passes the cliff where the start belongs.
Unlocked_CliffAsStart(stream, t) ==
    calculate_unlocked(stream.amount, stream.cliff_time, stream.cliff_time,
                       stream.end_time, t)

\* A call that passes an end one tick late.
Unlocked_EndPlusOne(stream, t) ==
    calculate_unlocked(stream.amount, stream.start_time, stream.cliff_time,
                       stream.end_time + 1, t)

Unlocked(stream, t) ==
    calculate_unlocked(stream.amount, stream.start_time, stream.cliff_time,
                       stream.end_time, t)

\* --------------------------------------------------------------- streams
\* A create_stream without the `amount <= 0` test.
createStreamStatus_NoAmountCheck(amount, start_time, cliff_time, end_time) ==
    IF is_paused THEN "Paused"
    ELSE IF end_time <= start_time THEN "InvalidRange"
    ELSE IF cliff_time < start_time \/ cliff_time >= end_time THEN "InvalidRange"
    ELSE IF TruncDiv(amount * GetOr("FeeBps", 0), BpsDenominator) > 0
            /\ "Treasury" \notin DOMAIN instance THEN "TreasuryNotSet"
    ELSE "ok"

createStreamStatus(amount, start_time, cliff_time, end_time) ==
    IF is_paused THEN "Paused"
    ELSE IF end_time <= start_time THEN "InvalidRange"
    ELSE IF cliff_time < start_time \/ cliff_time >= end_time THEN "InvalidRange"
    ELSE IF amount <= 0 THEN "InvalidAmount"
    ELSE IF TruncDiv(amount * GetOr("FeeBps", 0), BpsDenominator) > 0
            /\ "Treasury" \notin DOMAIN instance THEN "TreasuryNotSet"
    ELSE "ok"

\* A stream counter that hands out the lowest id that names no stored record.
AllocateId_LowestFree ==
    CHOOSE id \in 1..(MaxStreams + 1) :
        /\ id \notin DOMAIN persistent
        /\ \A j \in 1..(id - 1) : j \in DOMAIN persistent

\* `stream_id = get(StreamId).unwrap_or(0); stream_id += 1`
AllocateId == GetOr("StreamId", 0) + 1

create_stream(sender, receiver, token, amount, start_time, cliff_time, end_time) ==
    /\ createStreamStatus(amount, start_time, cliff_time, end_time) = "ok"
    /\ LET fee_amount == TruncDiv(amount * GetOr("FeeBps", 0), BpsDenominator)
             principal == amount - fee_amount
             stream_id == AllocateId
         IN
         /\ stream_id <= MaxStreams
         /\ custody' = [custody EXCEPT ![token] = @ + principal]
         /\ instance' = SetKey(instance, "StreamId", stream_id)
         /\ persistent' = PutStream(persistent, stream_id,
                Stream(sender, receiver, token, principal,
                       start_time, cliff_time, end_time, 0))
         /\ last' = Outcome("create_stream",
                <<StreamRequest(receiver, amount, start_time, cliff_time, end_time)>>,
                stream_id,
                <<Transfer(sender, Contract, principal)>> \o
                (IF fee_amount > 0
                 THEN <<Transfer(sender, instance["Treasury"], fee_amount)>>
                 ELSE <<>>),
                <<stream_id>>)
         /\ UNCHANGED <<migration_executed, now>>

\* A total that counts the first request only.
SumAmounts_HeadOnly(requests) ==
    IF requests = <<>> THEN 0 ELSE Head(requests).amount

RECURSIVE SumAmounts(_)
SumAmounts(requests) ==
    IF requests = <<>> THEN 0
    ELSE Head(requests).amount + SumAmounts(Tail(requests))

\* A validation loop that looks at the first request only.
batchStatus_FirstOnly(requests) ==
    IF requests = <<>> THEN "ok"
    ELSE IF Head(requests).end_time <= Head(requests).start_time THEN "InvalidRange"
    ELSE IF Head(requests).amount <= 0 THEN "InvalidAmount"
    ELSE "ok"

\* The first loop of create_batch_streams: the first offending request decides
\* the panic.
RECURSIVE batchStatus(_)
batchStatus(requests) ==
    IF requests = <<>> THEN "ok"
    ELSE IF Head(requests).end_time <= Head(requests).start_time THEN "InvalidRange"
    ELSE IF Head(requests).amount <= 0 THEN "InvalidAmount"
    ELSE batchStatus(Tail(requests))

\* The second loop: request i is stored under id first + i.
RECURSIVE StoreBatch(_, _, _, _, _)
StoreBatch(store, sender, token, requests, stream_id) ==
    IF requests = <<>> THEN store
    ELSE LET request == Head(requests) IN
         StoreBatch(PutStream(store, stream_id + 1,
                        Stream(sender, request.receiver, token, request.amount,
                               request.start_time, request.cliff_time,
                               request.end_time, 0)),
                    sender, token, Tail(requests), stream_id + 1)

create_batch_streams(sender, token, requests) ==
    /\ batchStatus(requests) = "ok"
    /\ LET total_amount == SumAmounts(requests)
             stream_id == GetOr("StreamId", 0)
             n == Len(requests)
         IN
         /\ stream_id + n <= MaxStreams
         /\ custody' = [custody EXCEPT ![token] = @ + total_amount]
         /\ persistent' = StoreBatch(persistent, sender, token, requests, stream_id)
         /\ instance' = SetKey(instance, "StreamId", stream_id + n)
         /\ last' = Outcome("create_batch_streams", requests, 0,
                <<Transfer(sender, Contract, total_amount)>>,
                [i \in 1..n |-> stream_id + i])
         /\ UNCHANGED <<migration_executed, now>>

\* A withdraw that does not call check_not_paused.
withdrawStatus_NoPauseCheck(stream_id, receiver) ==
    IF stream_id \notin DOMAIN persistent THEN "NotFound"
    ELSE IF ~IsCurrent(persistent[stream_id]) THEN "DecodeError"
    ELSE IF receiver # persistent[stream_id].receiver THEN "Unauthorized"
    ELSE IF ~Unlocked(persistent[stream_id], now).ok THEN "Overflow"
    ELSE IF Unlocked(persistent[stream_id], now).val
                - persistent[stream_id].withdrawn_amount <= 0
         THEN "NothingWithdrawable"
    ELSE IF custody[persistent[stream_id].token]
                < Unlocked(persistent[stream_id], now).val
                    - persistent[stream_id].withdrawn_amount
         THEN "TransferFailed"
    ELSE "ok"

\* A withdraw without the `withdrawable_amount <= 0` test.
withdrawStatus_NoEmptyCheck(stream_id, receiver) ==
    IF is_paused THEN "Paused"
    ELSE IF stream_id \notin DOMAIN persistent THEN "NotFound"
    ELSE IF ~IsCurrent(persistent[stream_id]) THEN "DecodeError"
    ELSE IF receiver # persistent[stream_id].receiver THEN "Unauthorized"
    ELSE IF ~Unlocked(persistent[stream_id], now).ok THEN "Overflow"
    ELSE IF custody[persistent[stream_id].token]
                < Unlocked(persistent[stream_id], now).val
                    - persistent[stream_id].withdrawn_amount
         THEN "TransferFailed"
    ELSE "ok"

withdrawStatus(stream_id, receiver) ==
    IF is_paused THEN "Paused"
    ELSE IF stream_id \notin DOMAIN persistent THEN "NotFound"
    ELSE IF ~IsCurrent(persistent[stream_id]) THEN "DecodeError"
    ELSE IF receiver # persistent[stream_id].receiver THEN "Unauthorized"
    ELSE IF ~Unlocked(persistent[stream_id], now).ok THEN "Overflow"
    ELSE IF Unlocked(persistent[stream_id], now).val
                - persistent[stream_id].withdrawn_amount <= 0
         THEN "NothingWithdrawable"
    ELSE IF custody[persistent[stream_id].token]
                < Unlocked(persistent[stream_id], now).val
                    - persistent[stream_id].withdrawn_amount
         THEN "TransferFailed"
    ELSE "ok"

withdraw(stream_id, receiver) ==
    /\ withdrawStatus(stream_id, receiver) = "ok"
    /\ LET stream == persistent[stream_id]
             total_unlocked == Unlocked(stream, now).val
             withdrawable_amount == total_unlocked - stream.withdrawn_amount
         IN
         /\ custody' = [custody EXCEPT ![stream.token] = @ - withdrawable_amount]
         /\ persistent' = PutStream(persistent, stream_id,
                [stream EXCEPT !.withdrawn_amount = @ + withdrawable_amount])
         /\ last' = Outcome("withdraw", <<>>, stream_id,
                <<Transfer(Contract, receiver, withdrawable_amount)>>,
                <<withdrawable_amount>>)
         /\ UNCHANGED <<instance, migration_executed, now>>

\* A cancel that settles the receiver but forgets the sender's refund.
CancelTransfers_NoRefund(stream, total_unlocked) ==
    LET withdrawable_to_receiver == total_unlocked - stream.withdrawn_amount
    IN IF withdrawable_to_receiver > 0
       THEN <<Transfer(Contract, stream.receiver, withdrawable_to_receiver)>>
       ELSE <<>>

\* The two transfers of cancel_stream; a zero or negative leg is skipped.
CancelTransfers(stream, total_unlocked) ==
    LET withdrawable_to_receiver == total_unlocked - stream.withdrawn_amount
        refund_to_sender == stream.amount - total_unlocked
    IN (IF withdrawable_to_receiver > 0
        THEN <<Transfer(Contract, stream.receiver, withdrawable_to_receiver)>>
        ELSE <<>>) \o
       (IF refund_to_sender > 0
        THEN <<Transfer(Contract, stream.sender, refund_to_sender)>>
        ELSE <<>>)

RECURSIVE SumTransfers(_)
SumTransfers(xfers) ==
    IF xfers = <<>> THEN 0 ELSE Head(xfers).amt + SumTransfers(Tail(xfers))

\* A cancel_stream without the `now >= end_time` test.
cancelStatus_NoMaturityCheck(stream_id, auth) ==
    IF is_paused THEN "Paused"
    ELSE IF stream_id \notin DOMAIN persistent THEN "NotFound"
    ELSE IF ~IsCurrent(persistent[stream_id]) THEN "DecodeError"
    ELSE IF auth # persistent[stream_id].sender THEN "Unauthorized"
    ELSE IF ~Unlocked(persistent[stream_id], now).ok THEN "Overflow"
    ELSE IF custody[persistent[stream_id].token]
                < SumTransfers(CancelTransfers(persistent[stream_id],
                                   Unlocked(persistent[stream_id], now).val))
         THEN "TransferFailed"
    ELSE "ok"

cancelStatus(stream_id, auth) ==
    IF is_paused THEN "Paused"
    ELSE IF stream_id \notin DOMAIN persistent THEN "NotFound"
    ELSE IF ~IsCurrent(persistent[stream_id]) THEN "DecodeError"
    ELSE IF auth # persistent[stream_id].sender THEN "Unauthorized"
    ELSE IF now >= persistent[stream_id].end_time THEN "AlreadyCompleted"
    ELSE IF ~Unlocked(persistent[stream_id], now).ok THEN "Overflow"
    ELSE IF custody[persistent[stream_id].token]
                < SumTransfers(CancelTransfers(persistent[stream_id],
                                   Unlocked(persistent[stream_id], now).val))
         THEN "TransferFailed"
    ELSE "ok"

cancel_stream(stream_id, auth) ==
    /\ cancelStatus(stream_id, auth) = "ok"
    /\ LET stream == persistent[stream_id]
             xfers == CancelTransfers(stream, Unlocked(stream, now).val)
         IN
         /\ custody' = [custody EXCEPT ![stream.token] = @ - SumTransfers(xfers)]
         /\ persistent' = RemoveStream(persistent, stream_id)
         /\ last' = Outcome("cancel_stream", <<>>, stream_id, xfers, <<>>)
         /\ UNCHANGED <<instance, migration_executed, now>>

\* A transfer_receiver that does not ask for the receiver's authorization.
transferReceiverStatus_AnyCaller(stream_id, auth) ==
    IF stream_id \notin DOMAIN persistent THEN "NotFound"
    ELSE IF ~IsCurrent(persistent[stream_id]) THEN "DecodeError"
    ELSE "ok"

transferReceiverStatus(stream_id, auth) ==
    IF stream_id \notin DOMAIN persistent THEN "NotFound"
    ELSE IF ~IsCurrent(persistent[stream_id]) THEN "DecodeError"
    ELSE IF auth # persistent[stream_id].receiver THEN "Unauthorized"
    ELSE "ok"

transfer_receiver(stream_id, new_receiver, auth) ==
    /\ transferReceiverStatus(stream_id, auth) = "ok"
    /\ persistent' = PutStream(persistent, stream_id,
           [persistent[stream_id] EXCEPT !.receiver = new_receiver])
    /\ last' = NoOutcome
    /\ UNCHANGED <<instance, migration_executed, custody, now>>

\* extend_ttl refreshes the retention of an existing entry and changes no
\* stored value; the store rejects the call for a key it does not hold.
extendTtlStatus(stream_id) ==
    IF stream_id \in DOMAIN persistent THEN "ok" ELSE "NotFound"

extend_stream_ttl(stream_id) ==
    /\ extendTtlStatus(stream_id) = "ok"
    /\ last' = NoOutcome
    /\ UNCHANGED <<instance, migration_executed, persistent, custody, now>>

\* The ledger closes and its timestamp moves on.
AdvanceTime ==
    /\ now < MaxTime
    /\ now' = now + 1
    /\ last' = NoOutcome
    /\ UNCHANGED <<instance, migration_executed, persistent, custody>>

\* ------------------------------------------------------- specification
RequestInputs ==
    { StreamRequest("bob", 10, t[1], t[2], t[3]) : t \in TimeInputs }
    \cup { StreamRequest("bob", 0, 0, 1, 2) }

RECURSIVE SeqsUpTo(_, _)
SeqsUpTo(S, n) ==
    IF n = 0 THEN { <<>> }
    ELSE SeqsUpTo(S, n - 1) \cup
         { Append(q, x) : q \in { p \in SeqsUpTo(S, n - 1) : Len(p) = n - 1 }, x \in S }

StreamIds == 1..(MaxStreams + 1)

\* A fresh deployment has empty storage.
InitFresh ==
    /\ instance = <<>>
    /\ persistent = <<>>
    /\ custody = [t \in Tokens |-> 0]

\* A deployment upgraded from schema version 1 holds records in the legacy
\* encoding, funded in custody.
InitUpgraded ==
    /\ instance = [k \in {"StreamId"} |-> 1]
    /\ persistent = [k \in {1} |-> LegacyStream("alice", "bob", "tok", 10, 0, 2, 0)]
    /\ custody = [t \in Tokens |-> 10]

Init ==
    /\ InitFresh \/ InitUpgraded
    /\ migration_executed = {}
    /\ now = 0
    /\ last = NoOutcome

Next ==
    \/ \E a \in Addr, v \in 0..MaxVersion : migrate(a, v)
    \/ \E a \in Addr, id \in StreamIds : migrate_single_stream(a, id)
    \/ \E a \in Addr, f \in FeeInputs, t \in TreasuryAddrs : initialize_fee(a, f, t)
    \/ \E a \in Addr, f \in FeeInputs : update_fee(a, f)
    \/ \E a \in Addr : initialize(a)
    \/ \E a \in Addr, p \in BOOLEAN : set_pause(a, p)
    \/ \E s \in Senders, r \in Receivers, tk \in Tokens, a \in AmountInputs,
          t \in TimeInputs : create_stream(s, r, tk, a, t[1], t[2], t[3])
    \/ \E s \in Senders, tk \in Tokens, rs \in SeqsUpTo(RequestInputs, MaxBatch) :
          create_batch_streams(s, tk, rs)
    \/ \E id \in StreamIds, r \in Addr : withdraw(id, r)
    \/ \E id \in StreamIds, a \in Addr : cancel_stream(id, a)
    \/ \E id \in StreamIds, r \in Addr, a \in Addr : transfer_receiver(id, r, a)
    \/ \E id \in StreamIds : extend_stream_ttl(id)
    \/ AdvanceTime

Spec == Init /\ [][Next]_vars

\* ------------------------------------------------------------- claims
CurrentIds == { id \in DOMAIN persistent : IsCurrent(persistent[id]) }

\* C1 -- withdrawn_amount never decreases, and whenever withdraw is called on
\* a stream (the call completing or aborting, at the current ledger time)
\* unlocked(now) is a value with 0 <= withdrawn_amount <= unlocked(now) <= amount.
\* An aborted call leaves the state as it is, so the relation is one of every
\* state a call can be made in.
C1_WithdrawnWithinUnlocked ==
    \A id \in CurrentIds :
        LET stream == persistent[id]
            unlocked == Unlocked(stream, now)
        IN /\ unlocked.ok
           /\ 0 <= stream.withdrawn_amount
           /\ stream.withdrawn_amount <= unlocked.val
           /\ unlocked.val <= stream.amount

\* C2 (as claimed) -- a successful cancel_stream pays the receiver and refunds
\* the sender amounts that add up to the stream's amount.
C2_CancelPaysOutAmount ==
    [][last'.op = "cancel_stream"
        => SumTransfers(last'.xfers) = persistent[last'.id].amount]_vars

\* C2 (amended) -- a successful cancel_stream pays the receiver and refunds the
\* sender amounts that add up to amount - withdrawn_amount: the stream's
\* amount less what the receiver had already withdrawn.  The receiver's leg
\* is unlocked(now) - withdrawn_amount and the sender's is amount - unlocked(now).
C2_CancelPaysOutRemainder ==
    [][last'.op = "cancel_stream"
        => LET stream == persistent[last'.id]
               unlocked == Unlocked(stream, now).val
               toReceiver == unlocked - stream.withdrawn_amount
               toSender == stream.amount - unlocked
           IN /\ now < stream.end_time
              /\ toReceiver >= 0 /\ toSender >= 0
              /\ SumTransfers(last'.xfers)
                    = stream.amount - stream.withdrawn_amount
              /\ last'.xfers =
                    (IF toReceiver > 0
                     THEN <<Transfer(Contract, stream.receiver, toReceiver)>>
                     ELSE <<>>) \o
                    (IF toSender > 0
                     THEN <<Transfer(Contract, stream.sender, toSender)>>
                     ELSE <<>>)
              /\ custody'[stream.token]
                    = custody[stream.token] - SumTransfers(last'.xfers)
              /\ last'.id \notin DOMAIN persistent']_vars

\* A cancel that paid both the receiver and the sender.
C2_Witness == last.op = "cancel_stream" /\ Len(last.xfers) = 2

\* C3 -- every stored record of the current schema has
\* start_time <= cliff_time < end_time.
C3_CliffWithinRange ==
    \A id \in CurrentIds :
        /\ persistent[id].start_time <= persistent[id].cliff_time
        /\ persistent[id].cliff_time < persistent[id].end_time

StreamCount == GetOr("StreamId", 0)

\* Ids that were assigned and name no stored record: the cancelled streams.
RetiredIds == (1..StreamCount) \ DOMAIN persistent

\* C4 -- stream ids are never reused: every stored id was assigned by the
\* counter; a create assigns only ids above the counter and moves the counter
\* up to the last of them; the counter never decreases; an id whose record was
\* removed by cancel_stream never names a stored record again, and withdraw,
\* cancel_stream and transfer_receiver on it fail for every caller.
C4_IdsNeverReused ==
    /\ [](DOMAIN persistent \subseteq 1..StreamCount)
    /\ [](\A id \in RetiredIds : \A a \in Addr :
            /\ withdrawStatus(id, a) # "ok"
            /\ cancelStatus(id, a) # "ok"
            /\ transferReceiverStatus(id, a) # "ok")
    /\ [][/\ StreamCount' >= StreamCount
          /\ DOMAIN persistent' \ DOMAIN persistent
                \subseteq (StreamCount + 1)..StreamCount'
          /\ last'.op \in {"create_stream", "create_batch_streams"}
                => /\ \A i \in DOMAIN last'.ret :
                         /\ last'.ret[i] > StreamCount
                         /\ last'.ret[i] \notin DOMAIN persistent
                         /\ last'.ret[i] \in DOMAIN persistent'
                   /\ { last'.ret[i] : i \in DOMAIN last'.ret }
                         = (StreamCount + 1)..StreamCount'
          /\ last'.op = "cancel_stream" => last'.id \in RetiredIds'
          /\ RetiredIds \subseteq RetiredIds']_vars

\* A stream was cancelled and a later create was given a higher id.
C4_Witness ==
    /\ last.op = "create_stream"
    /\ \E id \in RetiredIds : id < last.id

ValidRequest(request) ==
    request.end_time > request.start_time /\ request.amount > 0

\* C5 -- create_batch_streams is all-or-nothing: it aborts when any request has
\* end_time <= start_time or amount <= 0; when it completes, every request was
\* valid, exactly one transfer of the sum of the request amounts went from
\* the sender to custody, request i is stored under id counter + i with the
\* request's receiver, amount and times and withdrawn_amount 0, the returned
\* ids are counter+1 .. counter+n in request order, the counter ends at
\* counter + n and no other record changed.
C5_BatchAllOrNothing ==
    /\ [](\A rs \in SeqsUpTo(RequestInputs, MaxBatch) :
            (batchStatus(rs) = "ok") <=> (\A i \in 1..Len(rs) : ValidRequest(rs[i])))
    /\ [][last'.op = "create_batch_streams"
            => LET rs == last'.args
                   n == Len(rs)
                   total == SumAmounts(rs)
               IN /\ \A i \in 1..n : ValidRequest(rs[i])
                  /\ last'.ret = [i \in 1..n |-> StreamCount + i]
                  /\ StreamCount' = StreamCount + n
                  /\ DOMAIN persistent'
                        = DOMAIN persistent \cup (StreamCount + 1)..(StreamCount + n)
                  /\ \A id \in DOMAIN persistent : persistent'[id] = persistent[id]
                  /\ \E s \in Addr, tk \in Tokens :
                        /\ last'.xfers = <<Transfer(s, Contract, total)>>
                        /\ custody' = [custody EXCEPT ![tk] = @ + total]
                        /\ \A i \in 1..n :
                              persistent'[StreamCount + i]
                                = Stream(s, rs[i].receiver, tk, rs[i].amount,
                                         rs[i].start_time, rs[i].cliff_time,
                                         rs[i].end_time, 0)]_vars

\* A batch of two requests was stored.
C5_Witness ==
    /\ last.op = "create_batch_streams"
    /\ Len(last.ret) = 2
    /\ last.xfers[1].amt = last.args[1].amount + last.args[2].amount

StoredAdmins == IF "Admin" \in DOMAIN instance THEN {instance["Admin"]} ELSE {}

\* C6 -- migration is idempotent: once MigrationExecuted(v) is set, migrate
\* with target v fails for every caller, with AlreadyMigrated when the caller
\* is the stored admin; a flag that is set stays set, and a step sets at most
\* one flag, that of the version it moves ContractVersion to, leaving every
\* stream record as it was.
C6_MigrateOncePerVersion ==
    /\ [](\A v \in migration_executed :
            /\ StoredAdmins # {}
            /\ \A a \in Addr : migrateStatus(a, v) # "ok"
            /\ \A a \in StoredAdmins : migrateStatus(a, v) = "AlreadyMigrated")
    /\ [][/\ migration_executed \subseteq migration_executed'
          /\ \A v \in migration_executed' \ migration_executed :
                /\ migration_executed' = migration_executed \cup {v}
                /\ get_version' = v
                /\ persistent' = persistent]_vars

\* migrate(admin, 2) has completed.
C6_Witness == 2 \in migration_executed /\ get_version = 2

\* The versions lib.rs defines a migration step for.
DefinedSteps == {2}

\* C7 -- ContractVersion only moves forward through defined steps: migrate
\* can complete only for a target above the current version with a defined
\* step for every version in between; ContractVersion never decreases; it and
\* the MigrationExecuted flags change only together, to a higher version
\* reached through defined steps, with that version's flag set.
C7_VersionForwardOnly ==
    /\ [](\A a \in Addr, v \in 0..MaxVersion :
            migrateStatus(a, v) = "ok"
                => /\ v > get_version
                   /\ \A w \in (get_version + 1)..v : w \in DefinedSteps)
    /\ [][/\ get_version' >= get_version
          /\ (get_version' # get_version \/ migration_executed' # migration_executed)
                => /\ get_version' > get_version
                   /\ \A w \in (get_version + 1)..get_version' : w \in DefinedSteps
                   /\ migration_executed'
                        = migration_executed \cup {get_version'}]_vars

\* ContractVersion has moved from 1 to 2.
C7_Witness ==
    /\ "ContractVersion" \in DOMAIN instance
    /\ instance["ContractVersion"] = 2

LegacyIds == { id \in DOMAIN persistent : IsLegacy(persistent[id]) }

\* C8 -- while the pause flag is set, every create_stream, withdraw and
\* cancel_stream call fails with Paused, and none of them completes; the flag
\* does not stop transfer_receiver by the receiver of a stored stream,
\* migrate_single_stream by the admin on a legacy record, or extend_stream_ttl
\* on a stored record.
C8_PauseBlocksLedgerCalls ==
    /\ [](is_paused =>
            /\ \A a \in AmountInputs, t \in TimeInputs :
                    createStreamStatus(a, t[1], t[2], t[3]) = "Paused"
            /\ \A id \in StreamIds, a \in Addr :
                    /\ withdrawStatus(id, a) = "Paused"
                    /\ cancelStatus(id, a) = "Paused"
            /\ \A id \in CurrentIds :
                    transferReceiverStatus(id, persistent[id].receiver) = "ok"
            /\ \A id \in LegacyIds, a \in StoredAdmins :
                    migrateSingleStatus(a, id) = "ok"
            /\ \A id \in DOMAIN persistent : extendTtlStatus(id) = "ok")
    /\ [][is_paused
            => last'.op \notin {"create_stream", "withdraw", "cancel_stream"}]_vars

\* The contract is paused while it holds a legacy record and a stream with
\* unlocked funds that its receiver has not withdrawn and its sender could
\* still cancel.
C8_Witness ==
    /\ is_paused
    /\ LegacyIds # {}
    /\ \E id \in CurrentIds :
          /\ now < persistent[id].end_time
          /\ Unlocked(persistent[id], now).ok
          /\ Unlocked(persistent[id], now).val > persistent[id].withdrawn_amount

MaturedIds == { id \in CurrentIds : now >= persistent[id].end_time }

\* C9 (as claimed) -- cancel_stream on a stored stream at now >= end_time,
\* called with its sender's authorization, fails with AlreadyCompleted.
C9_MaturedCancelAlreadyCompleted ==
    \A id \in MaturedIds :
        cancelStatus(id, persistent[id].sender) = "AlreadyCompleted"

\* C9 (amended) -- cancel_stream on a stored stream at now >= end_time fails
\* for every caller; called with the sender's authorization it fails with
\* AlreadyCompleted when the contract is not paused and with Paused when it
\* is.  The record stays, and while the contract is not paused its receiver
\* can withdraw the remaining balance once now >= cliff_time.
C9_MaturedCancelFails ==
    \A id \in MaturedIds :
        LET stream == persistent[id] IN
        /\ \A a \in Addr : cancelStatus(id, a) # "ok"
        /\ cancelStatus(id, stream.sender)
              = IF is_paused THEN "Paused" ELSE "AlreadyCompleted"
        /\ (~is_paused /\ now >= stream.cliff_time
                /\ stream.withdrawn_amount < stream.amount)
              => withdrawStatus(id, stream.receiver) = "ok"

\* A matured stream with a balance left, contract not paused.
C9_Witness ==
    /\ ~is_paused
    /\ \E id \in MaturedIds :
          persistent[id].withdrawn_amount < persistent[id].amount

\* C10 -- the stored fee rate never exceeds 1000 bps: initialize_fee accepts
\* 1000 and rejects everything above with FeeOutOfBounds, and so does
\* update_fee called by the stored admin.
C10_FeeAtMostTenPercent ==
    /\ GetOr("FeeBps", 0) <= 1000
    /\ initializeFeeStatus(1000) = "ok"
    /\ \A f \in FeeInputs \cup 1001..1003 :
          f > 1000 => initializeFeeStatus(f) = "FeeOutOfBounds"
    /\ \A a \in StoredAdmins :
          /\ updateFeeStatus(a, 1000) = "ok"
          /\ \A f \in FeeInputs \cup 1001..1003 :
                f > 1000 => updateFeeStatus(a, f) = "FeeOutOfBounds"

\* The fee rate is stored at the ceiling.
C10_Witness == "FeeBps" \in DOMAIN instance /\ instance["FeeBps"] = 1000

\* The value a sequence of transfers moves to one account.
RECURSIVE SumTransfersTo(_, _)
SumTransfersTo(xfers, to) ==
    IF xfers = <<>> THEN 0
    ELSE (IF Head(xfers).to = to THEN Head(xfers).amt ELSE 0)
            + SumTransfersTo(Tail(xfers), to)

\* C11 -- create_stream fee accounting: a create_stream that completes under
\* the stored rate fee_bps takes fee = floor(amount * fee_bps / 10000); the
\* treasury receives exactly fee (nothing when fee = 0), custody receives
\* exactly amount - fee, every transfer is from the sender and they add up to
\* amount, and the record stored under the new id has amount = amount - fee > 0
\* and withdrawn_amount = 0.  A call with end <= start, cliff < start,
\* cliff >= end or amount <= 0 aborts, so it moves nothing and stores nothing.
C11_CreateStreamFeeAccounting ==
    /\ [](\A amount \in {-1, 0, 1, 10}, s \in 0..MaxTime, c \in 0..MaxTime,
            e \in 0..MaxTime :
            (e <= s \/ c < s \/ c >= e \/ amount <= 0)
                => createStreamStatus(amount, s, c, e)
                        \in {"Paused", "InvalidRange", "InvalidAmount"})
    /\ [][last'.op = "create_stream"
            => LET rq == last'.args[1]
                   fee == (rq.amount * GetOr("FeeBps", 0)) \div BpsDenominator
                   stream == persistent'[last'.id]
               IN /\ rq.amount > 0
                  /\ rq.start_time <= rq.cliff_time
                  /\ rq.cliff_time < rq.end_time
                  /\ last'.id = StreamCount + 1
                  /\ last'.id \notin DOMAIN persistent
                  /\ StreamCount' = StreamCount + 1
                  /\ \A i \in DOMAIN last'.xfers :
                        /\ last'.xfers[i].from = stream.sender
                        /\ last'.xfers[i].amt > 0
                        /\ last'.xfers[i].to = Contract
                              \/ last'.xfers[i].to = GetOr("Treasury", "none")
                  /\ SumTransfers(last'.xfers) = rq.amount
                  /\ SumTransfersTo(last'.xfers, Contract) = rq.amount - fee
                  /\ fee > 0 =>
                        SumTransfersTo(last'.xfers, instance["Treasury"]) = fee
                  /\ fee = 0 => Len(last'.xfers) = 1
                  /\ custody' = [custody EXCEPT ![stream.token] = @ + rq.amount - fee]
                  /\ stream = Stream(stream.sender, rq.receiver, stream.token,
                                     rq.amount - fee, rq.start_time,
                                     rq.cliff_time, rq.end_time, 0)
                  /\ stream.amount > 0
                  /\ \A id \in DOMAIN persistent : persistent'[id] = persistent[id]]_vars

\* A stream was created with a fee: 1 of 10 went to the treasury, 9 to custody.
C11_Witness ==
    /\ last.op = "create_stream"
    /\ Len(last.xfers) = 2
    /\ last.xfers[2].amt = 1
    /\ persistent[last.id].amount = 9

\* ------------------------------------------- the unlock schedule on its own
MaxUnlockTime == 4      \* schedule timestamps and the ledger range over 0..MaxUnlockTime
MaxUnlockAmount == 3    \* stream amounts range over 1..MaxUnlockAmount

\* The ledger closes, within the horizon of the schedules under study.
LedgerCloses ==
    /\ now < MaxUnlockTime
    /\ now' = now + 1
    /\ last' = NoOutcome
    /\ UNCHANGED <<instance, migration_executed, persistent, custody>>

\* One stream as create_stream stores it (no fee rate set), for every amount
\* and every schedule with start <= cliff < end, at ledger time 0.
InitUnlock ==
    /\ \E amount \in 1..MaxUnlockAmount,
          start \in 0..MaxUnlockTime, cliff \in 0..MaxUnlockTime,
          end \in 0..MaxUnlockTime :
          /\ start <= cliff /\ cliff < end
          /\ persistent = [k \in {1} |->
                Stream("alice", "bob", "tok", amount, start, cliff, end, 0)]
          /\ custody = [t \in Tokens |-> amount]
    /\ instance = [k \in {"StreamId"} |-> 1]
    /\ migration_executed = {}
    /\ now = 0
    /\ last = NoOutcome

NextUnlock ==
    \/ \E r \in Addr : withdraw(1, r)
    \/ \E a \in Addr : cancel_stream(1, a)
    \/ LedgerCloses

SpecUnlock == InitUnlock /\ [][NextUnlock]_vars

\* C12 -- for amount > 0 and start <= cliff < end, and every time t, the
\* unlocked amount is 0 when t < cliff, amount when t >= end, and
\* floor(amount * (t - start) / (end - start)) in between (elapsed time is
\* measured from start, also at t = cliff); so 0 <= unlocked(t) <= amount and
\* unlocked is non-decreasing in t.  withdraw pays this value less
\* withdrawn_amount, and cancel_stream splits the stream at this value.
C12_UnlockedPiecewiseLinear ==
    /\ [](\A id \in CurrentIds :
            LET s == persistent[id] IN
            (s.amount > 0 /\ s.start_time <= s.cliff_time
                    /\ s.cliff_time < s.end_time)
            => \A t \in 0..(MaxUnlockTime + 1) :
                  LET u == Unlocked(s, t) IN
                  /\ u.ok
                  /\ t < s.cliff_time => u.val = 0
                  /\ t >= s.end_time => u.val = s.amount
                  /\ (s.cliff_time <= t /\ t < s.end_time)
                        => u.val = (s.amount * (t - s.start_time))
                                        \div (s.end_time - s.start_time)
                  /\ 0 <= u.val /\ u.val <= s.amount
                  /\ t > 0 => Unlocked(s, t - 1).val <= u.val)
    /\ [][\A id \in CurrentIds :
            LET s == persistent[id]
                linear == (s.amount * (now - s.start_time))
                                \div (s.end_time - s.start_time)
                expected == IF now < s.cliff_time THEN 0
                            ELSE IF now >= s.end_time THEN s.amount
                            ELSE linear
            IN (s.amount > 0 /\ s.start_time <= s.cliff_time
                    /\ s.cliff_time < s.end_time)
               => /\ (last'.op = "withdraw" /\ last'.id = id)
                        => /\ last'.ret = <<expected - s.withdrawn_amount>>
                           /\ persistent'[id].withdrawn_amount = expected
                  /\ (last'.op = "cancel_stream" /\ last'.id = id)
                        => /\ SumTransfersTo(last'.xfers, s.receiver)
                                = expected - s.withdrawn_amount
                           /\ SumTransfersTo(last'.xfers, s.sender)
                                = s.amount - expected]_vars

\* A withdraw at now = cliff, with the cliff after the start, paid the part
\* unlocked since the start.
C12_Witness ==
    /\ last.op = "withdraw"
    /\ last.id \in CurrentIds
    /\ LET s == persistent[last.id] IN
          /\ now = s.cliff_time
          /\ s.start_time < s.cliff_time
          /\ last.ret[1] > 0
          /\ last.ret[1] = (s.amount * (s.cliff_time - s.start_time))
                                \div (s.end_time - s.start_time)
          /\ last.ret[1] < s.amount

\* C13 (as claimed, last part) -- once a withdraw has left withdrawn_amount =
\* unlocked(now), and for as long as the stream and the timestamp stay so, a
\* further withdraw by the stream's receiver fails with NothingWithdrawable.
C13_SecondWithdrawNothingWithdrawable ==
    \A id \in CurrentIds :
        LET s == persistent[id] IN
        (Unlocked(s, now).ok /\ s.withdrawn_amount > 0
                /\ s.withdrawn_amount = Unlocked(s, now).val)
            => withdrawStatus(id, s.receiver) = "NothingWithdrawable"

\* C13 (amended) -- a withdraw that completes at ledger time now pays exactly
\* unlocked(now) - withdrawn_amount (a positive amount, from custody to the
\* receiver) and leaves withdrawn_amount = unlocked(now) and the rest of the
\* record as it was; directly afterwards a second withdraw on that stream
\* fails with NothingWithdrawable for its receiver and completes for nobody.
\* As long as withdrawn_amount = unlocked(now), no withdraw on the stream
\* completes, so nothing is transferred and the record stays; the receiver's
\* call fails with NothingWithdrawable while the contract is not paused and
\* with Paused while it is.
C13_WithdrawPaysUnlockedOnce ==
    /\ [](\A id \in CurrentIds :
            LET s == persistent[id] IN
            (Unlocked(s, now).ok /\ s.withdrawn_amount = Unlocked(s, now).val)
                => /\ \A a \in Addr : withdrawStatus(id, a) # "ok"
                   /\ withdrawStatus(id, s.receiver)
                        = IF is_paused THEN "Paused" ELSE "NothingWithdrawable")
    /\ [][last'.op = "withdraw"
            => \E id \in CurrentIds :
                  LET s == persistent[id]
                      u == Unlocked(s, now)
                  IN /\ id = last'.id
                     /\ u.ok
                     /\ u.val - s.withdrawn_amount > 0
                     /\ last'.ret = <<u.val - s.withdrawn_amount>>
                     /\ last'.xfers = <<Transfer(Contract, s.receiver,
                                                 u.val - s.withdrawn_amount)>>
                     /\ custody' = [custody EXCEPT
                            ![s.token] = @ - (u.val - s.withdrawn_amount)]
                     /\ persistent' = [persistent EXCEPT
                            ![id] = [s EXCEPT !.withdrawn_amount = u.val]]
                     /\ now' = now
                     /\ withdrawStatus(id, s.receiver)' = "NothingWithdrawable"
                     /\ \A a \in Addr : withdrawStatus(id, a)' # "ok"]_vars

\* A withdraw paid part of a stream; its receiver's next withdraw at this
\* timestamp finds nothing withdrawable although funds remain locked.
C13_Witness ==
    /\ last.op = "withdraw"
    /\ last.id \in CurrentIds
    /\ persistent[last.id].withdrawn_amount < persistent[last.id].amount
    /\ withdrawStatus(last.id, persistent[last.id].receiver) = "NothingWithdrawable"

\* C14 -- migrate_single_stream converts exactly the legacy records, once
\* each: called by the stored admin it completes exactly on the ids that hold
\* a legacy record, and fails on an absent id and on a record of the current
\* schema; a legacy record stays stored and changes only into the
\* current-schema record with cliff_time = start_time and every other field
\* copied, in a step that changes nothing else; after that step
\* migrate_single_stream on the id fails for every caller, and no step
\* produces a legacy record.
C14_MigrateSingleConvertsOnce ==
    /\ [](\A a \in StoredAdmins, id \in StreamIds :
            /\ (migrateSingleStatus(a, id) = "ok") <=> (id \in LegacyIds)
            /\ id \notin DOMAIN persistent
                    => migrateSingleStatus(a, id) = "NotFound"
            /\ id \in CurrentIds => migrateSingleStatus(a, id) = "DecodeError")
    /\ [][/\ LegacyIds' \subseteq LegacyIds
          /\ \A id \in LegacyIds :
                LET l == persistent[id] IN
                /\ id \in DOMAIN persistent'
                /\ \/ persistent'[id] = l
                   \/ /\ persistent' = [persistent EXCEPT ![id] =
                              Stream(l.sender, l.receiver, l.token, l.amount,
                                     l.start_time, l.start_time, l.end_time,
                                     l.withdrawn_amount)]
                      /\ StoredAdmins # {}
                      /\ UNCHANGED <<instance, migration_executed, custody, now>>
                      /\ \A a \in Addr : migrateSingleStatus(a, id)' # "ok"
                      /\ \A a \in StoredAdmins :
                            migrateSingleStatus(a, id)' = "DecodeError"]_vars

\* The legacy record of the upgraded deployment has been converted.
C14_Witness ==
    /\ LegacyIds = {}
    /\ \E id \in CurrentIds :
          /\ persistent[id].cliff_time = persistent[id].start_time
          /\ persistent[id].start_time = 0
          /\ persistent[id].end_time = 2

\* The stored stream `id` has a different receiver after the step.
ReceiverChanged(id) ==
    /\ id \in CurrentIds
    /\ id \in DOMAIN persistent'
    /\ persistent'[id].receiver # persistent[id].receiver

\* C15 (as claimed) -- a step that changes the receiver of a stream changes
\* nothing else (the other fields of the record, the other records, the id
\* counter and the balances stay), and afterwards withdraw on the stream
\* completes only for the new receiver and fails with Unauthorized for the
\* previous receiver and every other principal.
C15_TransferReceiverThenUnauthorized ==
    [][\A id \in CurrentIds :
          ReceiverChanged(id)
            => /\ persistent' = [persistent EXCEPT
                      ![id].receiver = persistent'[id].receiver]
               /\ UNCHANGED <<instance, migration_executed, custody, now>>
               /\ \A a \in Addr :
                     /\ withdrawStatus(id, a)' = "ok"
                            => a = persistent'[id].receiver
                     /\ a # persistent'[id].receiver
                            => withdrawStatus(id, a)' = "Unauthorized"]_vars

\* C15 (amended) -- transfer_receiver completes exactly for the current
\* receiver of a stored current-schema stream; a step that changes the
\* receiver of a stream changes nothing else, and afterwards withdraw on the
\* stream completes only for the new receiver; for the previous receiver and
\* every other principal it fails with Unauthorized while the contract is not
\* paused, and with Paused (as for every caller) while it is.
C15_TransferReceiverFrame ==
    /\ [](\A id \in CurrentIds, a \in Addr :
            (transferReceiverStatus(id, a) = "ok") <=> (a = persistent[id].receiver))
    /\ [][\A id \in CurrentIds :
            ReceiverChanged(id)
              => /\ persistent' = [persistent EXCEPT
                        ![id].receiver = persistent'[id].receiver]
                 /\ UNCHANGED <<instance, migration_executed, custody, now>>
                 /\ \A a \in Addr :
                       /\ withdrawStatus(id, a)' = "ok"
                              => a = persistent'[id].receiver
                       /\ a # persistent'[id].receiver
                              => withdrawStatus(id, a)'
                                    = IF is_paused THEN "Paused"
                                      ELSE "Unauthorized"
                       /\ (is_paused /\ a = persistent'[id].receiver)
                              => withdrawStatus(id, a)' = "Paused"]_vars

\* A stream created for bob now names alice as its receiver: alice can
\* withdraw from it and bob is turned away.
C15_Witness ==
    \E id \in CurrentIds :
        /\ persistent[id].receiver = "alice"
        /\ withdrawStatus(id, "alice") = "ok"
        /\ withdrawStatus(id, "bob") = "Unauthorized"

\* C16 (as claimed, last part) -- once a stream is paid out in full at or
\* after its end_time, every later withdraw by its receiver fails with
\* NothingWithdrawable.
C16_PaidOutThenNothingWithdrawable ==
    \A id \in MaturedIds :
        persistent[id].withdrawn_amount = persistent[id].amount
            => withdrawStatus(id, persistent[id].receiver) = "NothingWithdrawable"

\* C16 (amended) -- for a stored stream the amounts returned by the withdraw
\* calls that completed add up to withdrawn_amount: a record is created with
\* withdrawn_amount 0, a withdraw on it raises withdrawn_amount by exactly the
\* amount it returns, and no other step changes withdrawn_amount.  A withdraw
\* pays unlocked(now) less what was paid before, which is 0 or unlocked(t1)
\* of an earlier time t1, so withdraws at t1 < t2 pay unlocked(t1) and then
\* unlocked(t2) - unlocked(t1).  A withdraw that completes at now >= end_time
\* leaves withdrawn_amount = amount; from then on no withdraw on the stream
\* completes, and its receiver's withdraw fails with NothingWithdrawable
\* while the contract is not paused and with Paused while it is.
C16_CumulativePayout ==
    /\ [](\A id \in CurrentIds :
            LET s == persistent[id] IN
            /\ \/ s.withdrawn_amount = 0
               \/ \E t1 \in 0..now :
                     /\ Unlocked(s, t1).ok
                     /\ s.withdrawn_amount = Unlocked(s, t1).val
            /\ s.withdrawn_amount = s.amount
                  => /\ \A a \in Addr : withdrawStatus(id, a) # "ok"
                     /\ withdrawStatus(id, s.receiver)
                           = IF is_paused THEN "Paused" ELSE "NothingWithdrawable")
    /\ [][/\ \A id \in DOMAIN persistent' \ DOMAIN persistent :
                persistent'[id].withdrawn_amount = 0
          /\ \A id \in DOMAIN persistent \cap DOMAIN persistent' :
                LET s == persistent[id]
                    paid == IF last'.op = "withdraw" /\ last'.id = id
                            THEN last'.ret[1] ELSE 0
                IN /\ persistent'[id].withdrawn_amount = s.withdrawn_amount + paid
                   /\ paid >= 0
                   /\ (last'.op = "withdraw" /\ last'.id = id)
                        => /\ paid = Unlocked(s, now).val - s.withdrawn_amount
                           /\ persistent'[id].withdrawn_amount = Unlocked(s, now).val
                           /\ now >= s.end_time
                                => persistent'[id].withdrawn_amount = s.amount]_vars

\* A second withdraw, at the end of the stream, paid the rest: 5 at time 1
\* and now the other 5 of 10.
C16_Witness ==
    /\ last.op = "withdraw"
    /\ last.id \in MaturedIds
    /\ last.ret[1] > 0
    /\ last.ret[1] < persistent[last.id].amount
    /\ persistent[last.id].withdrawn_amount = persistent[last.id].amount

\* C17 -- a stored current-schema stream is mutated only by withdraw and
\* transfer_receiver and removed only by cancel_stream: in every step its
\* sender, token, amount, start_time, cliff_time and end_time stay as they
\* are while it is stored; if it is no longer stored the step is a
\* cancel_stream of it, if its withdrawn_amount changed the step is a withdraw
\* from it, and if its receiver changed the step is a transfer_receiver of
\* it.  A step that moves ContractVersion or sets a MigrationExecuted flag (a
\* completed migrate) leaves every record and the id counter as they were.
C17_StreamFrame ==
    [][/\ \A id \in CurrentIds :
            LET s == persistent[id] IN
            /\ id \notin DOMAIN persistent'
                  => \E a \in Addr : cancel_stream(id, a)
            /\ id \in DOMAIN persistent'
                  => LET n == persistent'[id] IN
                     /\ IsCurrent(n)
                     /\ n.sender = s.sender /\ n.token = s.token
                     /\ n.amount = s.amount /\ n.start_time = s.start_time
                     /\ n.cliff_time = s.cliff_time /\ n.end_time = s.end_time
                     /\ n.withdrawn_amount # s.withdrawn_amount
                           => \E r \in Addr : withdraw(id, r)
                     /\ n.receiver # s.receiver
                           => \E r \in Addr, a \in Addr : transfer_receiver(id, r, a)
       /\ (get_version' # get_version \/ migration_executed' # migration_executed)
            => /\ \E a \in StoredAdmins, v \in 0..MaxVersion : migrate(a, v)
               /\ persistent' = persistent
               /\ StreamCount' = StreamCount]_vars

\* The record the upgraded deployment started with was converted, has been
\* withdrawn from and handed to another receiver, and is stored unchanged
\* after migrate(admin, 2), which completes only once no legacy record is left.
C17_Witness ==
    /\ get_version = 2
    /\ 1 \in CurrentIds
    /\ persistent[1].cliff_time = persistent[1].start_time
    /\ persistent[1].withdrawn_amount > 0
    /\ persistent[1].receiver = "alice"
    /\ persistent[1].amount = 10

\* What the stored streams of a token still owe: amount - withdrawn_amount,
\* added up over the records in `ids`.
RECURSIVE SumOutstanding(_, _)
SumOutstanding(ids, token) ==
    IF ids = {} THEN 0
    ELSE LET id == CHOOSE i \in ids : TRUE IN
         (IF persistent[id].token = token
          THEN persistent[id].amount - persistent[id].withdrawn_amount
          ELSE 0) + SumOutstanding(ids \ {id}, token)

C19_NothingCreatedWhilePaused ==
    [][is_paused
        => /\ DOMAIN persistent' \subseteq DOMAIN persistent
           /\ StreamCount' = StreamCount
           /\ custody' = custody]_vars

\* The administrative entries of instance storage.
AdminState ==
    [k \in DOMAIN instance \cap {"Admin", "FeeBps", "Treasury", "IsPaused"}
        |-> instance[k]]

\* C20 -- once an admin is stored, the stored Admin, the fee rate, the
\* treasury and the pause flag change only in a call made by that admin
\* (initialize, initialize_fee, update_fee or set_pause with the stored admin
\* as the authenticated `admin`), and a paused contract is unpaused only by
\* that admin's set_pause(false).
C20_AdminStateByAdminOnly ==
    /\ [][(StoredAdmins # {} /\ AdminState' # AdminState)
            => \E a \in StoredAdmins :
                  \/ initialize(a)
                  \/ \E f \in FeeInputs, t \in TreasuryAddrs : initialize_fee(a, f, t)
                  \/ \E f \in FeeInputs : update_fee(a, f)
                  \/ \E p \in BOOLEAN : set_pause(a, p)]_vars
    /\ [][(is_paused /\ ~is_paused')
            => \E a \in StoredAdmins : set_pause(a, FALSE)]_vars

====
